---- MODULE Spec2Model ----
(***************************************************************************)
(* Match lifecycle, matchmaking and score reconciliation of the "bir"      *)
(* application (src/match_manager.py, reached through src/api.py and       *)
(* src/views.py).                                                          *)
(*                                                                         *)
(* The store is one SQLite database.  Every manager method opens its own   *)
(* connection; Python's sqlite3 opens a transaction before the first       *)
(* INSERT/UPDATE/DELETE of a connection and holds the database write lock  *)
(* until commit.  A handler is therefore modelled as a sequence of steps:  *)
(* every SELECT issued before the first write is a step of its own (other  *)
(* connections may commit between two of them), and everything from the    *)
(* first write to the commit is one atomic step.                           *)
(***************************************************************************)
EXTENDS Integers, Sequences, FiniteSets, TLC

\* ---------------------------------------------------------------- bounds
NumTeams == 2
LifeTeams == 4
ToggleTeams == 3
NumProcs == 2
MaxMatches == 2
MainMatches == 1
MaxFinal == 2
MainFinal == 1
MaxScore == 1
MaxTime == 6
LifeMaxTime == 12
TickMinutes == 6
FlowTeams == 3
DeadlineMaxTime == 21
QueueTeams == 6
QueueMaxTime == 36

\* ------------------------------------------------------ program constants
MATCH_DURATION_MINUTES == 12
BUFFER_MINUTES == 3
READY_CHECK_TIMEOUT_MINUTES == 5
READY_WINDOW_MINUTES == 3
NOTIFY_FROM_MINUTES == 3
NOTIFY_TO_MINUTES == 6
ELO_K == 32
INITIAL_ELO == 1000
TABLE_ID == 1

MatchIds == 1..MaxMatches
Scores == 0..MaxScore
NULL == -1
NoTeam == 0

LIVE == {"pending", "ready_check", "active", "finished"}
OCCUPYING == {"ready_check", "active", "finished"}
IN_MATCH == {"match_pending", "match_active"}

VARIABLES
  teams,      \* teams table: id -> [status, elo, plays, wins, losses]
  matches,    \* matches table: sequence of rows, the row id is the index
  subs,       \* match_submissions table: set of rows, unique on (match, team)
  history,    \* elo_history table: sequence of rows [team, elo]
  now,        \* datetime.utcnow(), in minutes
  call,       \* per request in flight: position, arguments, locals, result
  finals      \* ghost: per match id, how many times the finalize branch ran

vars == <<teams, matches, subs, history, now, call, finals>>

\* ----------------------------------------------------------------- rows
NewTeam == [status |-> "no_match", elo |-> INITIAL_ELO, plays |-> 0, wins |-> 0, losses |-> 0]

NewMatch(t1, t2, sched) ==
  [team1 |-> t1, team2 |-> t2, table |-> TABLE_ID, status |-> "pending",
   sched |-> sched, timer |-> NULL,
   ready1 |-> FALSE, ready2 |-> FALSE, done1 |-> FALSE, done2 |-> FALSE,
   score1 |-> NULL, score2 |-> NULL, winner |-> NoTeam, mismatch |-> FALSE,
   notified |-> FALSE]

IdleCall ==
  [pc |-> "idle", op |-> "none", u |-> NoTeam, m |-> 0, sf |-> 0, sa |-> 0,
   pick |-> NoTeam, nowp |-> 0, list |-> <<>>, st |-> "none", ret |-> "none", rid |-> 0]

\* A handler returns: only the result stays visible.
Return(r, id) == [IdleCall EXCEPT !.pc = "ret", !.ret = r, !.rid = id]

Ids(ms) == DOMAIN ms

RECURSIVE SortedIds(_)
SortedIds(S) ==
  IF S = {} THEN <<>>
  ELSE LET x == CHOOSE y \in S : \A z \in S : y <= z
       IN <<x>> \o SortedIds(S \ {x})

Max(S) == CHOOSE x \in S : \A y \in S : y <= x

\* ------------------------------------------------- deadline evaluator
\* match_manager.py:40  now >= scheduled_start - timedelta(minutes=3)
WindowOpen(sched, t) == t >= sched - READY_WINDOW_MINUTES

\* A timeout that already holds at the deadline itself
TimedOutAtDeadline(sched, t) == t >= sched + READY_CHECK_TIMEOUT_MINUTES

\* match_manager.py:61  now > scheduled_start + READY_CHECK_TIMEOUT_MINUTES
TimedOut(sched, t) == t > sched + READY_CHECK_TIMEOUT_MINUTES

\* match_manager.py:42-45  a row of the table in ready_check, active or finished
Busy(ms, tab) == \E i \in Ids(ms) : ms[i].table = tab /\ ms[i].status \in OCCUPYING

\* match_manager.py:48  UPDATE matches SET status = 'ready_check' WHERE id = ?
Promote(ms, i) == [ms EXCEPT ![i].status = "ready_check"]

\* match_manager.py:34-48  the loop over the selected pending rows
RECURSIVE PromoteLoop(_, _, _)
PromoteLoop(ms, list, t) ==
  IF list = <<>> THEN ms
  ELSE LET i == Head(list)
       IN IF WindowOpen(ms[i].sched, t) /\ ~Busy(ms, ms[i].table)
          THEN PromoteLoop(Promote(ms, i), Tail(list), t)
          ELSE PromoteLoop(ms, Tail(list), t)

\* The forced start that writes timer_start and leaves the status.
ForceStartTimerOnly(ms, i, t) == [ms EXCEPT ![i].timer = t]

\* The forced start that writes the status and leaves timer_start.
ForceStartNoTimer(ms, i, t) == [ms EXCEPT ![i].status = "active"]

\* match_manager.py:63-67  status = 'active', timer_start = now
ForceStart(ms, i, t) == [ms EXCEPT ![i].status = "active", ![i].timer = t]

\* The UPDATE of the teams with one id only.
ActivateFirstOnly(ts, row) ==
  [x \in DOMAIN ts |-> IF x = row.team1
                   THEN [ts[x] EXCEPT !.status = "match_active"] ELSE ts[x]]

\* match_manager.py:70-71 and 204-205  both teams of the row to match_active
Activate(ts, row) ==
  [x \in DOMAIN ts |-> IF x \in {row.team1, row.team2}
                   THEN [ts[x] EXCEPT !.status = "match_active"] ELSE ts[x]]

\* match_manager.py:56-71  the loop over the selected ready_check rows;
\* the result is <<matches, teams>>
RECURSIVE ForceLoop(_, _, _, _)
ForceLoop(ms, ts, list, t) ==
  IF list = <<>> THEN <<ms, ts>>
  ELSE LET i == Head(list)
       IN IF TimedOut(ms[i].sched, t)
          THEN ForceLoop(ForceStart(ms, i, t), Activate(ts, ms[i]), Tail(list), t)
          ELSE ForceLoop(ms, ts, Tail(list), t)

PendingIds(ms) == {i \in Ids(ms) : ms[i].status = "pending" /\ ms[i].sched # NULL}
ReadyIds(ms) == {i \in Ids(ms) : ms[i].status = "ready_check"}

\* match_manager.py:18-75  update_match_progress run on its own, with no
\* other connection in between; the result is <<matches, teams>>
UpdateMatchProgress(ms, ts, t) ==
  LET ms1 == PromoteLoop(ms, SortedIds(PendingIds(ms)), t)
  IN ForceLoop(ms1, ts, SortedIds(ReadyIds(ms1)), t)

\* ------------------------------------------------------------ pairing
\* The claiming UPDATE without its status condition: any other team.
CandidatesAnyStatus(ts, u) == {t \in DOMAIN ts : t # u}

\* match_manager.py:133-135  the teams the claiming UPDATE may pick
Candidates(ts, u) == {t \in DOMAIN ts : ts[t].status = "available" /\ t # u}

\* match_manager.py:131 and 145  opponent and requester to match_pending
Reserve(ts, u, o) ==
  [x \in DOMAIN ts |-> IF x \in {u, o}
                   THEN [ts[x] EXCEPT !.status = "match_pending"] ELSE ts[x]]

\* match_manager.py:153-169
ScheduledStart(ms, t) ==
  LET live == {i \in Ids(ms) : ms[i].status \in LIVE /\ ms[i].sched # NULL}
  IN IF live # {}
     THEN Max({ms[i].sched : i \in live}) + MATCH_DURATION_MINUTES + BUFFER_MINUTES
     ELSE t

\* --------------------------------------------------------- ready / done
\* match_manager.py:192-197
MarkReady(row, u) ==
  IF u = row.team1 THEN [row EXCEPT !.ready1 = TRUE] ELSE [row EXCEPT !.ready2 = TRUE]

\* The check without its timer_start condition.
BothReadyAnyTimer(row) == row.ready1 /\ row.ready2

\* match_manager.py:201
BothReady(row) == row.ready1 /\ row.ready2 /\ row.timer = NULL

\* match_manager.py:195-205  the result is <<matches, teams>>
SetReady(ms, ts, m, u, t) ==
  LET row == MarkReady(ms[m], u)
  IN IF BothReady(row)
     THEN <<[ms EXCEPT ![m] = [row EXCEPT !.timer = t, !.status = "active"]],
            Activate(ts, row)>>
     ELSE <<[ms EXCEPT ![m] = row], ts>>

\* match_manager.py:219-224
MarkDone(row, u) ==
  IF u = row.team1 THEN [row EXCEPT !.done1 = TRUE] ELSE [row EXCEPT !.done2 = TRUE]

\* match_manager.py:226-228
SetDone(ms, m, u) ==
  LET row == MarkDone(ms[m], u)
  IN IF row.done1 /\ row.done2
     THEN [ms EXCEPT ![m] = [row EXCEPT !.status = "finished"]]
     ELSE [ms EXCEPT ![m] = row]

\* ------------------------------------------------------ reconciliation
\* The upsert with its conflict target on match_id alone: the new row
\* replaces every row of the match.
UpsertPerMatch(ss, m, u, sf, sa) ==
  {r \in ss : r.match # m} \cup {[match |-> m, team |-> u, sf |-> sf, sa |-> sa]}

\* match_manager.py:243-250  INSERT ... ON CONFLICT(match_id, team_id) DO UPDATE
Upsert(ss, m, u, sf, sa) ==
  {r \in ss : ~(r.match = m /\ r.team = u)}
    \cup {[match |-> m, team |-> u, sf |-> sf, sa |-> sa]}

\* match_manager.py:256-261
SubsOf(ss, m) == {r \in ss : r.match = m}
SubOf(ss, m, t) == CHOOSE r \in ss : r.match = m /\ r.team = t
HasSub(ss, m, t) == \E r \in ss : r.match = m /\ r.team = t

\* match_manager.py:263  len(subs_map) == 2
BothSubmitted(ss, m) == Cardinality({r.team : r \in SubsOf(ss, m)}) = 2

\* match_manager.py:267-268
ScoresAgree(s1, s2) == s1.sf = s2.sa /\ s1.sa = s2.sf

\* match_manager.py:273
WinnerOf(row, score1, score2) == IF score1 > score2 THEN row.team1 ELSE row.team2

\* A step that ignores the expected score: the winner gains the whole K
EloStepFullK(d) == ELO_K

\* match_manager.py:302  floor of 32 * (1 - expected1) for d = elo2 - elo1,
\* tabulated from the float expression (an integer only at d = 0)
EloStep(d) ==
  IF d >= 137 THEN 22 ELSE IF d >= 113 THEN 21 ELSE IF d >= 89 THEN 20
  ELSE IF d >= 66 THEN 19 ELSE IF d >= 44 THEN 18 ELSE IF d >= 22 THEN 17
  ELSE IF d >= 0 THEN 16 ELSE IF d >= -21 THEN 15 ELSE IF d >= -43 THEN 14
  ELSE IF d >= -65 THEN 13 ELSE IF d >= -88 THEN 12 ELSE IF d >= -112 THEN 11
  ELSE IF d >= -136 THEN 10 ELSE 9

\* match_manager.py:298-309  int() truncates towards zero; <<new_elo1, new_elo2>>
NewElo(elo1, elo2, team1Won) ==
  LET d == elo2 - elo1
      fl == EloStep(d)
      ce == IF d = 0 THEN fl ELSE fl + 1
  IN IF team1Won THEN <<elo1 + fl, elo2 - ce>>
     ELSE <<elo1 - (ELO_K - fl), elo2 + (ELO_K - ce)>>

\* match_manager.py:275-282
Complete(row, score1, score2, w) ==
  [row EXCEPT !.status = "completed", !.score1 = score1, !.score2 = score2, !.winner = w]

\* match_manager.py:285-292, 312-313  status, plays, wins, losses and elo
Release(ts, row, w, elos) ==
  [x \in DOMAIN ts |->
     IF x \notin {row.team1, row.team2} THEN ts[x]
     ELSE [status |-> "no_match",
           elo |-> IF x = row.team1 THEN elos[1] ELSE elos[2],
           plays |-> ts[x].plays + 1,
           wins |-> ts[x].wins + (IF x = w THEN 1 ELSE 0),
           losses |-> ts[x].losses + (IF x = w THEN 0 ELSE 1)]]

\* match_manager.py:316-317
Record(h, row, elos) ==
  h \o <<[team |-> row.team1, elo |-> elos[1]], [team |-> row.team2, elo |-> elos[2]]>>

\* match_manager.py:336-343
ResetMismatch(ms, m) ==
  IF m \in Ids(ms) THEN [ms EXCEPT ![m].mismatch = FALSE] ELSE ms

\* A reset that leaves the submissions where they are
KeepSubs(ss, m) == ss

\* match_manager.py:343
DeleteSubs(ss, m) == {r \in ss : r.match # m}

IsParticipant(row, u) == u = row.team1 \/ u = row.team2

\* ----------------------------------------------------------------- init
Init ==
  /\ teams = [t \in 1..NumTeams |-> NewTeam]
  /\ matches = <<>>
  /\ subs = {}
  /\ history = <<>>
  /\ now = 0
  /\ call = [p \in {1} |-> IdleCall]
  /\ finals = [i \in MatchIds |-> 0]

\* ------------------------------------------------------------ requests
\* The store as one value, and the result of a step: the store and the
\* request's own record after it.
Store == [teams |-> teams, matches |-> matches, subs |-> subs,
          history |-> history, finals |-> finals]

Out(S, c) == [s |-> S, c |-> c]

Request(op, u, m, sf, sa, pick, pc) ==
  [IdleCall EXCEPT !.pc = pc, !.op = op, !.u = u, !.m = m, !.sf = sf, !.sa = sa,
                   !.pick = pick]

\* --------------------------------------- update_match_progress, in steps
\* match_manager.py:26-32  now and the SELECT of the pending rows; the rows
\* whose window is not open (line 40) are passed over without a query
UmpSelect(S, c, t) ==
  LET due == {i \in PendingIds(S.matches) : WindowOpen(S.matches[i].sched, t)}
  IN Out(S, [c EXCEPT !.nowp = t, !.list = SortedIds(due),
                      !.pc = IF due = {} THEN "ump_rsel" ELSE "ump_busy"])

\* match_manager.py:42-47  the busy SELECT for the next due row, not yet in
\* a transaction
UmpBusy(S, c, t) ==
  LET i == Head(c.list)
      rest == Tail(c.list)
  IN IF Busy(S.matches, S.matches[i].table)
     THEN Out(S, [c EXCEPT !.list = rest,
                           !.pc = IF rest = <<>> THEN "ump_rsel" ELSE "ump_busy"])
     ELSE Out(S, [c EXCEPT !.pc = "ump_promote"])

\* match_manager.py:51-54  the rows a SELECT of ready_check returns
ReadyList(ms) == SortedIds(ReadyIds(ms))

\* get_user_state resumes after update_match_progress
AfterUmp(c) == [c EXCEPT !.pc = "gus_status", !.list = <<>>, !.nowp = 0]

\* match_manager.py:48-73  the first UPDATE opens the transaction; the rest
\* of the first loop, the second loop and the commit are one step
UmpPromote(S, c, t) ==
  LET ms1 == PromoteLoop(Promote(S.matches, Head(c.list)), Tail(c.list), c.nowp)
      res == ForceLoop(ms1, S.teams, ReadyList(ms1), c.nowp)
  IN Out([S EXCEPT !.matches = res[1], !.teams = res[2]], AfterUmp(c))

\* match_manager.py:51-61  no pending row was updated: the SELECT of the
\* ready_check rows is still outside a transaction
UmpReadySelect(S, c, t) ==
  LET due == {i \in ReadyIds(S.matches) : TimedOut(S.matches[i].sched, c.nowp)}
  IN Out(S, IF due = {} THEN AfterUmp(c)
            ELSE [c EXCEPT !.list = SortedIds(due), !.pc = "ump_force"])

\* match_manager.py:63-73  the forced starts of the selected rows and the commit
UmpForce(S, c, t) ==
  LET res == ForceLoop(S.matches, S.teams, c.list, c.nowp)
  IN Out([S EXCEPT !.matches = res[1], !.teams = res[2]], AfterUmp(c))

\* ------------------------------------------------ get_user_state, in steps
\* api.py:18-45 (toggle_status) and api.py:63-112 (status) after get_user_state
AfterGus(c, st, mid) ==
  IF c.op = "status" THEN Return(st, mid)
  ELSE IF st \in IN_MATCH THEN Return("error", 0)
  ELSE IF st = "available" THEN [c EXCEPT !.pc = "tog_cancel", !.st = "none"]
  ELSE [c EXCEPT !.pc = "tog_try", !.st = "none"]

\* match_manager.py:87-91
GusStatus(S, c, t) ==
  LET st == S.teams[c.u].status
  IN Out(S, IF st \in IN_MATCH THEN [c EXCEPT !.pc = "gus_match", !.st = st]
            ELSE AfterGus(c, st, 0))

\* match_manager.py:101-102  the live matches of a team
LiveOf(ms, u) == {i \in Ids(ms) : IsParticipant(ms[i], u) /\ ms[i].status \in LIVE}

\* match_manager.py:103-104  ORDER BY scheduled_start ASC LIMIT 1
FirstLive(ms, u) ==
  CHOOSE i \in LiveOf(ms, u) :
    \A j \in LiveOf(ms, u) :
      ms[i].sched < ms[j].sched \/ (ms[i].sched = ms[j].sched /\ i <= j)

\* match_manager.py:92-109
GusMatch(S, c, t) ==
  Out(S, IF LiveOf(S.matches, c.u) # {}
         THEN AfterGus(c, c.st, FirstLive(S.matches, c.u))
         ELSE [c EXCEPT !.pc = "gus_heal", !.st = "none"])

\* A read that answers no_match without the UPDATE of match_manager.py:112
GusHealNoWrite(S, c, t) == Out(S, AfterGus(c, "no_match", 0))

\* match_manager.py:110-113
GusHeal(S, c, t) ==
  Out([S EXCEPT !.teams[c.u].status = "no_match"], AfterGus(c, "no_match", 0))

\* ------------------------------------------------------- toggle_status
\* api.py:23-29
ToggleCancel(S, c, t) ==
  Out([S EXCEPT !.teams[c.u].status = "no_match"], Return("cancelled", 0))

\* match_manager.py:132-136  ORDER BY RANDOM() LIMIT 1: any candidate; the
\* request carries the draw
Claimed(ts, u, pick) ==
  IF pick \in Candidates(ts, u) THEN pick
  ELSE CHOOSE o \in Candidates(ts, u) : \A x \in Candidates(ts, u) : o <= x

\* api.py:31-36 with match_manager.py:122-183: try_create_match is one
\* transaction from its first statement, the claiming UPDATE
TryCreateMatch(S, c, t) ==
  IF Candidates(S.teams, c.u) = {}
  THEN Out(S, [c EXCEPT !.pc = "tog_avail"])
  ELSE LET o == Claimed(S.teams, c.u, c.pick)
       IN Out([S EXCEPT !.teams = Reserve(S.teams, c.u, o),
                        !.matches = Append(S.matches,
                                      NewMatch(c.u, o, ScheduledStart(S.matches, t)))],
              Return("match_found", Len(S.matches) + 1))

\* A toggle that answers searching without the UPDATE of api.py:40
ToggleAvailableNoWrite(S, c, t) == Out(S, Return("searching", 0))

\* api.py:38-43
ToggleAvailable(S, c, t) ==
  Out([S EXCEPT !.teams[c.u].status = "available"], Return("searching", 0))

\* ---------------------------------------------------- set_ready, set_done
\* api.py:132-141 with match_manager.py:185-210.  The row read at line 188
\* is used for its id and team ids only, which never change, so the read
\* and the transaction are one step.
Ready(S, c, t) ==
  IF c.m \notin Ids(S.matches) THEN Out(S, Return("not_found", 0))
  ELSE LET res == SetReady(S.matches, S.teams, c.m, c.u, t)
       IN Out([S EXCEPT !.matches = res[1], !.teams = res[2]], Return("success", 0))

\* api.py:143-152 with match_manager.py:212-233
Done(S, c, t) ==
  IF c.m \notin Ids(S.matches) THEN Out(S, Return("not_found", 0))
  ELSE Out([S EXCEPT !.matches = SetDone(S.matches, c.m, c.u)], Return("success", 0))

\* ------------------------------------------------------------ submit_score
\* views.py:156-200  the route's own read of the match: existence, the
\* participant check, the completed check and the normalisation of the
\* two form fields to (my score, opponent score)
ViewsMatchRead(S, c, t) ==
  Out(S, IF c.m \notin Ids(S.matches) THEN Return("not_found", 0)
         ELSE IF ~IsParticipant(S.matches[c.m], c.u) THEN Return("unauthorized", 0)
         ELSE IF S.matches[c.m].status = "completed" THEN Return("error", 0)
         ELSE IF c.u = S.matches[c.m].team1 THEN [c EXCEPT !.pc = "ss_read"]
         ELSE [c EXCEPT !.pc = "ss_read", !.sf = c.sa, !.sa = c.sf])

\* A submit_score without the check of match_manager.py:239
SubmitReadNoCheck(S, c, t) == Out(S, [c EXCEPT !.pc = "ss_write"])

\* match_manager.py:238-240
SubmitRead(S, c, t) ==
  Out(S, IF c.m \notin Ids(S.matches) \/ S.matches[c.m].status = "completed"
         THEN Return("error", 0)
         ELSE [c EXCEPT !.pc = "ss_write"])

\* match_manager.py:270-320  the finalize branch
Finalize(S, m, s1) ==
  LET row == S.matches[m]
      w == WinnerOf(row, s1.sf, s1.sa)
      elos == NewElo(S.teams[row.team1].elo, S.teams[row.team2].elo, w = row.team1)
  IN [S EXCEPT !.matches[m] = Complete(row, s1.sf, s1.sa, w),
               !.teams = Release(S.teams, row, w, elos),
               !.history = Record(S.history, row, elos),
               !.finals[m] = @ + 1]

\* A reconciliation that takes the final scores from the caller's own
\* submission instead of team1's
SubmitWriteCallerFirst(S, c, t) ==
  LET ss == Upsert(S.subs, c.m, c.u, c.sf, c.sa)
      S1 == [S EXCEPT !.subs = ss, !.matches[c.m].mismatch = FALSE]
      row == S1.matches[c.m]
  IN IF ~BothSubmitted(ss, c.m) THEN Out(S1, Return("waiting_for_opponent", 0))
     ELSE LET s1 == SubOf(ss, c.m, c.u)
              s2 == SubOf(ss, c.m, IF c.u = row.team1 THEN row.team2 ELSE row.team1)
          IN IF ~ScoresAgree(s1, s2)
             THEN Out([S1 EXCEPT !.matches[c.m].mismatch = TRUE], Return("mismatch", 0))
             ELSE Out(Finalize(S1, c.m, s1), Return("match_completed", 0))

\* match_manager.py:243-328  the transaction of submit_score
SubmitWrite(S, c, t) ==
  LET ss == Upsert(S.subs, c.m, c.u, c.sf, c.sa)
      S1 == [S EXCEPT !.subs = ss, !.matches[c.m].mismatch = FALSE]
      row == S1.matches[c.m]
  IN IF ~BothSubmitted(ss, c.m) THEN Out(S1, Return("waiting_for_opponent", 0))
     ELSE LET s1 == SubOf(ss, c.m, row.team1)
              s2 == SubOf(ss, c.m, row.team2)
          IN IF ~ScoresAgree(s1, s2)
             THEN Out([S1 EXCEPT !.matches[c.m].mismatch = TRUE], Return("mismatch", 0))
             ELSE Out(Finalize(S1, c.m, s1), Return("match_completed", 0))

\* A reset handler without the participant check of api.py:52-54
ResetAnyone(S, c, t) ==
  Out([S EXCEPT !.matches = ResetMismatch(S.matches, c.m),
                !.subs = DeleteSubs(S.subs, c.m)],
      Return("success", 0))

\* ---------------------------------------------------------- reset_mismatch
\* api.py:47-57 with match_manager.py:333-346 and 453-482.  The row read by
\* get_match_details is used for its team ids only, which never change.
Reset(S, c, t) ==
  IF c.m \notin Ids(S.matches) \/ ~IsParticipant(S.matches[c.m], c.u)
  THEN Out(S, Return("unauthorized", 0))
  ELSE Out([S EXCEPT !.matches = ResetMismatch(S.matches, c.m),
                     !.subs = DeleteSubs(S.subs, c.m)],
           Return("success", 0))

\* ------------------------------------------------------ check_notifications
\* match_manager.py:423-429  the pending rows of the team not yet notified
Notifiable(ms, u) ==
  {i \in Ids(ms) : IsParticipant(ms[i], u) /\ ms[i].status = "pending" /\ ~ms[i].notified}

\* match_manager.py:437
InNotifyWindow(sched, t) ==
  t + NOTIFY_FROM_MINUTES <= sched /\ sched <= t + NOTIFY_TO_MINUTES

\* match_manager.py:419-437  now, the SELECT and the window test.  The
\* SELECT has no ORDER BY: fetchone() yields any of the rows; the request
\* carries the draw in m.
NotifyRead(S, c, t) ==
  LET rows == Notifiable(S.matches, c.u)
      i == IF c.m \in rows THEN c.m ELSE CHOOSE x \in rows : \A y \in rows : x <= y
  IN Out(S, IF rows = {} THEN Return("no_notify", 0)
            ELSE IF InNotifyWindow(S.matches[i].sched, t) THEN [c EXCEPT !.pc = "cn_write", !.m = i]
            ELSE Return("no_notify", 0))

\* match_manager.py:438-446  the UPDATE, its commit and notify = True
NotifyWrite(S, c, t) ==
  Out([S EXCEPT !.matches[c.m].notified = TRUE], Return("notify", c.m))

\* ---------------------------------------------------------- the machine
\* The step a request takes at its position.
StepOf(S, c, t) ==
  CASE c.pc = "ump_sel" -> UmpSelect(S, c, t)
    [] c.pc = "ump_busy" -> UmpBusy(S, c, t)
    [] c.pc = "ump_promote" -> UmpPromote(S, c, t)
    [] c.pc = "ump_rsel" -> UmpReadySelect(S, c, t)
    [] c.pc = "ump_force" -> UmpForce(S, c, t)
    [] c.pc = "gus_status" -> GusStatus(S, c, t)
    [] c.pc = "gus_match" -> GusMatch(S, c, t)
    [] c.pc = "gus_heal" -> GusHeal(S, c, t)
    [] c.pc = "tog_cancel" -> ToggleCancel(S, c, t)
    [] c.pc = "tog_try" -> TryCreateMatch(S, c, t)
    [] c.pc = "tog_avail" -> ToggleAvailable(S, c, t)
    [] c.pc = "ready" -> Ready(S, c, t)
    [] c.pc = "done" -> Done(S, c, t)
    [] c.pc = "vm_read" -> ViewsMatchRead(S, c, t)
    [] c.pc = "ss_read" -> SubmitRead(S, c, t)
    [] c.pc = "ss_write" -> SubmitWrite(S, c, t)
    [] c.pc = "reset" -> Reset(S, c, t)
    [] c.pc = "cn_read" -> NotifyRead(S, c, t)
    [] c.pc = "cn_write" -> NotifyWrite(S, c, t)
    [] OTHER -> Out(S, c)

\* A handler run from its first statement to its return with no other
\* request in between.
RECURSIVE Run(_, _, _)
Run(S, c, t) ==
  IF c.pc \in {"ret", "idle"} THEN Out(S, c)
  ELSE LET o == StepOf(S, c, t) IN Run(o.s, o.c, t)

\* The result of a handler or step becomes the state.  The response of a
\* request is kept in its record only where it is looked at (keep).
Commit(p, o, keep) ==
  /\ teams' = o.s.teams
  /\ matches' = o.s.matches
  /\ subs' = o.s.subs
  /\ history' = o.s.history
  /\ finals' = o.s.finals
  /\ call' = [call EXCEPT ![p] = IF o.c.pc = "ret" /\ ~keep THEN IdleCall ELSE o.c]
  /\ UNCHANGED now

\* The store stays within the bounds: capM rows in matches, capF finalizations.
Within(S, capM, capF) == Len(S.matches) <= capM /\ Len(S.history) <= 2 * capF

Idle(p) == call[p].pc \in {"idle", "ret"}

\* The match ids a request may name: the rows of the table and one that
\* does not exist.
ArgIds == {i \in MatchIds : i <= Len(matches) + 1}

\* The draws of ORDER BY RANDOM() that matter to a request of team u.
Draws(u) == IF Candidates(teams, u) = {} THEN {NoTeam} ELSE Candidates(teams, u)

\* ------------------------------------- one request at a time: the handlers
\* api.py:59-63  GET /api/status
Status(p, keep) ==
  /\ Idle(p)
  /\ \E u \in DOMAIN teams :
       Commit(p, Run(Store, Request("status", u, 0, 0, 0, 0, "ump_sel"), now), keep)

\* api.py:6-45  POST /api/toggle_status
ToggleStatus(p, keep, capM) ==
  /\ Idle(p)
  /\ \E u \in DOMAIN teams :
       \E pick \in Draws(u) :
         LET o == Run(Store, Request("toggle", u, 0, 0, 0, pick, "ump_sel"), now)
         IN Within(o.s, capM, MaxFinal) /\ Commit(p, o, keep)

\* api.py:132-141  POST /api/match/<id>/ready
MatchReady(p, keep) ==
  /\ Idle(p)
  /\ \E u \in DOMAIN teams, m \in ArgIds :
       Commit(p, Run(Store, Request("ready", u, m, 0, 0, 0, "ready"), now), keep)

\* api.py:143-152  POST /api/match/<id>/done
MatchDone(p, keep) ==
  /\ Idle(p)
  /\ \E u \in DOMAIN teams, m \in ArgIds :
       Commit(p, Run(Store, Request("done", u, m, 0, 0, 0, "done"), now), keep)

\* views.py:153-218  POST /match/<id> with the form fields score1, score2
SubmitOf(u, m, s1, s2) == Run(Store, Request("submit", u, m, s1, s2, 0, "vm_read"), now)

SubmitScore(p, keep, capF) ==
  /\ Idle(p)
  /\ \E u \in DOMAIN teams, m \in ArgIds, s1 \in Scores, s2 \in Scores :
       /\ Within(SubmitOf(u, m, s1, s2).s, MaxMatches, capF)
       /\ Commit(p, SubmitOf(u, m, s1, s2), keep)

\* api.py:47-57  POST /api/match/<id>/reset_mismatch
ResetMismatchCall(p, keep) ==
  /\ Idle(p)
  /\ \E u \in DOMAIN teams, m \in ArgIds :
       Commit(p, Run(Store, Request("reset", u, m, 0, 0, 0, "reset"), now), keep)

\* ------------------------------------------------------------------ time
Tick(maxT) ==
  /\ now + TickMinutes <= maxT
  /\ now' = now + TickMinutes
  /\ UNCHANGED <<teams, matches, subs, history, call, finals>>

\* ------------------------------------------------ the whole application
\* Every operation, one request at a time, from the empty store, with one
\* row in the matches table at most.
Next ==
  \/ Tick(MaxTime)
  \/ Status(1, FALSE) \/ ToggleStatus(1, FALSE, MainMatches) \/ MatchReady(1, FALSE)
  \/ MatchDone(1, FALSE) \/ SubmitScore(1, TRUE, MainFinal) \/ ResetMismatchCall(1, FALSE)

Spec == Init /\ [][Next]_vars

\* ------------------------------------------ lifecycle of a table's queue
\* Pairing, deadlines, ready and done for LifeTeams teams and two matches.
InitLife ==
  /\ teams = [t \in 1..LifeTeams |-> NewTeam]
  /\ matches = <<>>
  /\ subs = {}
  /\ history = <<>>
  /\ now = 0
  /\ call = [p \in {1} |-> IdleCall]
  /\ finals = [i \in MatchIds |-> 0]

NextLife ==
  \/ Tick(LifeMaxTime)
  \/ Status(1, FALSE) \/ ToggleStatus(1, FALSE, MaxMatches)
  \/ MatchReady(1, FALSE) \/ MatchDone(1, FALSE)

SpecLife == InitLife /\ [][NextLife]_vars

\* ---------------------------------------------- two teams playing again
NextRematch ==
  \/ ToggleStatus(1, FALSE, MaxMatches) \/ MatchDone(1, FALSE)
  \/ SubmitScore(1, FALSE, MainFinal)

SpecRematch == Init /\ [][NextRematch]_vars

\* ------------------------------------------------- concurrent requests
\* A request in flight takes the step of its position.
At(p, pc) ==
  /\ call[p].pc = pc
  /\ Within(StepOf(Store, call[p], now).s, MaxMatches, MaxFinal)
  /\ Commit(p, StepOf(Store, call[p], now), TRUE)

Launch(p, c) ==
  /\ call' = [call EXCEPT ![p] = c]
  /\ UNCHANGED <<teams, matches, subs, history, now, finals>>

\* Every team sends one toggle_status request; the requests run concurrently.
InitToggle ==
  /\ teams = [t \in 1..ToggleTeams |-> NewTeam]
  /\ matches = <<>>
  /\ subs = {}
  /\ history = <<>>
  /\ now = 0
  /\ call = [p \in 1..ToggleTeams |-> IdleCall]
  /\ finals = [i \in MatchIds |-> 0]

StartToggle(p) ==
  /\ call[p].pc = "idle"
  /\ \E pick \in DOMAIN teams : Launch(p, Request("toggle", p, 0, 0, 0, pick, "ump_sel"))

NextToggle ==
  \E p \in DOMAIN call :
    \/ StartToggle(p)
    \/ At(p, "ump_sel") \/ At(p, "ump_busy") \/ At(p, "ump_promote") \/ At(p, "ump_rsel")
    \/ At(p, "gus_status") \/ At(p, "tog_try") \/ At(p, "tog_avail")

SpecToggle == InitToggle /\ [][NextToggle]_vars

\* A finished match of teams 1 and 2, as the requests of the normal flow
\* leave it (both ready at 0, both done), and no submission yet.
FinishedMatch ==
  [NewMatch(1, 2, 0) EXCEPT !.status = "finished", !.timer = 0,
                            !.ready1 = TRUE, !.ready2 = TRUE,
                            !.done1 = TRUE, !.done2 = TRUE]

InitRetry ==
  /\ teams = [t \in 1..2 |-> [NewTeam EXCEPT !.status = "match_active"]]
  /\ matches = <<FinishedMatch>>
  /\ subs = {}
  /\ history = <<>>
  /\ now = 0
  /\ call = [p \in 1..NumProcs |-> IdleCall]
  /\ finals = [i \in MatchIds |-> 0]

\* The two form fields a request in flight carries (views.py:184-185).
FormOf(c) ==
  IF c.pc = "vm_read" \/ c.u = matches[c.m].team1 THEN <<c.sf, c.sa>> ELSE <<c.sa, c.sf>>

\* The same, for a stored submission.
FormOfRow(r) == IF r.team = matches[r.match].team1 THEN <<r.sf, r.sa>> ELSE <<r.sa, r.sf>>

\* Both teams report one and the same result, and a client repeats its
\* request: every submit request of a behaviour carries the same two scores.
StartSubmitSame(p) ==
  /\ Idle(p)
  /\ \E u \in DOMAIN teams, s1 \in Scores, s2 \in Scores :
       /\ \A r \in SubsOf(subs, 1) : FormOfRow(r) = <<s1, s2>>
       /\ \A q \in DOMAIN call : call[q].op = "submit" => FormOf(call[q]) = <<s1, s2>>
       /\ Launch(p, Request("submit", u, 1, s1, s2, 0, "vm_read"))

NextRetry ==
  \E p \in DOMAIN call :
    \/ StartSubmitSame(p)
    \/ At(p, "vm_read") \/ At(p, "ss_read") \/ At(p, "ss_write")

SpecRetry == InitRetry /\ [][NextRetry]_vars

\* --------------------------------------------- pairing and ready / done
\* Three teams and one match: pairing, the ready check, the forced start and
\* the done flags, with a team that is not in the match.
InitFlow ==
  /\ teams = [t \in 1..FlowTeams |-> NewTeam]
  /\ matches = <<>>
  /\ subs = {}
  /\ history = <<>>
  /\ now = 0
  /\ call = [p \in {1} |-> IdleCall]
  /\ finals = [i \in MatchIds |-> 0]

NextFlow ==
  \/ Tick(MaxTime)
  \/ Status(1, FALSE) \/ ToggleStatus(1, TRUE, MainMatches)
  \/ MatchReady(1, FALSE) \/ MatchDone(1, FALSE)

SpecFlow == InitFlow /\ [][NextFlow]_vars

\* ------------------------------------------------------- the forced start
\* Matches are made while one more tick of the clock is left; the deadline
\* evaluator keeps being run and the clock keeps running.
\* match_manager.py:18-75  one run of update_match_progress
Evaluate ==
  /\ matches' = UpdateMatchProgress(matches, teams, now)[1]
  /\ teams' = UpdateMatchProgress(matches, teams, now)[2]
  /\ UNCHANGED <<subs, history, now, call, finals>>

NextForced ==
  \/ Tick(LifeMaxTime)
  \/ Evaluate
  \/ (now + TickMinutes <= LifeMaxTime /\ ToggleStatus(1, FALSE, MainMatches))
  \/ MatchReady(1, FALSE)

SpecForced ==
  /\ InitFlow /\ [][NextForced]_vars
  /\ WF_vars(Tick(LifeMaxTime)) /\ WF_vars(Evaluate)

\* ------------------------------------------------------- get_user_state
\* get_user_state as a function of the store: every combination of two
\* teams' stored statuses with no match or one match of theirs in any status.
InitState ==
  /\ teams \in [1..2 -> {[NewTeam EXCEPT !.status = st] :
                           st \in {"no_match", "available", "match_pending", "match_active"}}]
  /\ matches \in {<<>>} \cup
       {<<[NewMatch(1, 2, 0) EXCEPT !.status = st,
                                      !.timer = IF st \in {"pending", "ready_check"}
                                                THEN NULL ELSE 0]>> :
          st \in {"pending", "ready_check", "active", "finished", "completed"}}
  /\ subs = {}
  /\ history = <<>>
  /\ now \in {0, TickMinutes}
  /\ call = [p \in {1} |-> IdleCall]
  /\ finals = [i \in MatchIds |-> 0]

NextState == Status(1, TRUE)

SpecState == InitState /\ [][NextState]_vars

\* ------------------------------------------- toggles of any team, concurrent
\* Two requests in flight at a time, each a toggle_status of any team: a
\* team may have two requests of its own under way.
InitDouble ==
  /\ teams = [t \in 1..ToggleTeams |-> NewTeam]
  /\ matches = <<>>
  /\ subs = {}
  /\ history = <<>>
  /\ now = 0
  /\ call = [p \in 1..NumProcs |-> IdleCall]
  /\ finals = [i \in MatchIds |-> 0]

StartToggleAny(p) ==
  /\ Idle(p)
  /\ \E u \in DOMAIN teams, pick \in DOMAIN teams :
       Launch(p, Request("toggle", u, 0, 0, 0, pick, "ump_sel"))

NextDouble ==
  \E p \in DOMAIN call :
    \/ StartToggleAny(p)
    \/ At(p, "ump_sel") \/ At(p, "ump_busy") \/ At(p, "ump_promote") \/ At(p, "ump_rsel")
    \/ At(p, "gus_status") \/ At(p, "gus_match")
    \/ At(p, "tog_cancel") \/ At(p, "tog_try") \/ At(p, "tog_avail")

SpecDouble == InitDouble /\ [][NextDouble]_vars

\* ------------------------------------------------- the score dispute
\* A finished match of teams 1 and 2 and a third team outside it: score
\* submissions and resets of the mismatch, one request at a time, while
\* the clock runs.
InitDispute ==
  /\ teams = [t \in 1..FlowTeams |->
                IF t \in {1, 2} THEN [NewTeam EXCEPT !.status = "match_active"]
                ELSE NewTeam]
  /\ matches = <<FinishedMatch>>
  /\ subs = {}
  /\ history = <<>>
  /\ now = 0
  /\ call = [p \in 1..1 |-> IdleCall]
  /\ finals = [i \in MatchIds |-> 0]

NextDispute ==
  \/ Tick(MaxTime)
  \/ SubmitScore(1, TRUE, MainFinal)
  \/ ResetMismatchCall(1, TRUE)

SpecDispute == InitDispute /\ [][NextDispute]_vars

\* ------------------------------------------------------ notifications
\* Four teams were paired at time 0: match 1 starts at once, match 2 is
\* queued behind it.  The clients poll /api/check_notifications, two
\* requests at a time, while the clock runs.
InitNotify ==
  /\ teams = [t \in 1..LifeTeams |-> [NewTeam EXCEPT !.status = "match_pending"]]
  /\ matches = <<NewMatch(1, 2, 0),
                 NewMatch(3, 4, MATCH_DURATION_MINUTES + BUFFER_MINUTES)>>
  /\ subs = {}
  /\ history = <<>>
  /\ now = 0
  /\ call = [p \in 1..NumProcs |-> IdleCall]
  /\ finals = [i \in MatchIds |-> 0]

StartNotify(p) ==
  /\ Idle(p)
  /\ \E u \in DOMAIN teams, m \in Ids(matches) :
       Launch(p, Request("notify", u, m, 0, 0, 0, "cn_read"))

NextNotify ==
  \/ Tick(LifeMaxTime)
  \/ \E p \in DOMAIN call :
       StartNotify(p) \/ At(p, "cn_read") \/ At(p, "cn_write")

SpecNotify == InitNotify /\ [][NextNotify]_vars

\* ------------------------------------------------ the deadline rules
\* update_match_progress as a function of the store and the clock.  Four
\* teams were paired at time 0: the match of teams 1 and 2 is scheduled at
\* 0 and is at any point of its life, the match of teams 3 and 4 is queued
\* behind it.  The evaluator is run at any minute.
FirstRow(st, r1, r2) ==
  [NewMatch(1, 2, 0) EXCEPT !.status = st,
                            !.timer = IF st \in {"pending", "ready_check"} THEN NULL ELSE 0,
                            !.ready1 = r1, !.ready2 = r2]

StatusFor(st) ==
  IF st \in {"pending", "ready_check"} THEN "match_pending"
  ELSE IF st = "completed" THEN "no_match" ELSE "match_active"

InitDeadline ==
  /\ \E st \in LIVE \cup {"completed"}, r1 \in BOOLEAN, r2 \in BOOLEAN :
       /\ st \in {"pending", "ready_check"} => ~(r1 /\ r2)
       /\ matches = <<FirstRow(st, r1, r2),
                      NewMatch(3, 4, MATCH_DURATION_MINUTES + BUFFER_MINUTES)>>
       /\ teams = [t \in 1..LifeTeams |->
                     [NewTeam EXCEPT !.status = IF t \in {1, 2} THEN StatusFor(st)
                                                ELSE "match_pending"]]
  /\ subs = {}
  /\ history = <<>>
  /\ now \in 0..DeadlineMaxTime
  /\ call = [p \in {1} |-> IdleCall]
  /\ finals = [i \in MatchIds |-> 0]

NextDeadline == Tick(DeadlineMaxTime) \/ Evaluate

SpecDeadline == InitDeadline /\ [][NextDeadline]_vars

\* ------------------------------------- deadlines and ready, concurrent
\* Four teams were paired at time 0.  Two requests at a time: polls of
\* /api/status, whose deadline evaluation runs statement by statement, and
\* ready presses, while the clock runs.
StartStatus(p) ==
  /\ Idle(p)
  /\ \E u \in DOMAIN teams : Launch(p, Request("status", u, 0, 0, 0, 0, "ump_sel"))

StartReady(p) ==
  /\ Idle(p)
  /\ \E u \in DOMAIN teams, m \in Ids(matches) :
       /\ IsParticipant(matches[m], u)
       /\ Launch(p, Request("ready", u, m, 0, 0, 0, "ready"))

NextRace ==
  \/ Tick(TickMinutes)
  \/ \E p \in DOMAIN call :
       \/ StartStatus(p) \/ StartReady(p)
       \/ At(p, "ump_sel") \/ At(p, "ump_busy") \/ At(p, "ump_promote")
       \/ At(p, "ump_rsel") \/ At(p, "ump_force")
       \/ At(p, "gus_status") \/ At(p, "gus_match")
       \/ At(p, "ready")

SpecRace == InitNotify /\ [][NextRace]_vars

\* ------------------------------------- the ready check, concurrent
\* The match of teams 1 and 2 has entered its ready check at time 0.  Two
\* requests at a time: polls of /api/status, whose deadline evaluation
\* runs statement by statement, and ready presses, while the clock runs
\* past the deadline.
InitStart ==
  /\ teams = [t \in 1..NumTeams |-> [NewTeam EXCEPT !.status = "match_pending"]]
  /\ matches = <<FirstRow("ready_check", FALSE, FALSE)>>
  /\ subs = {}
  /\ history = <<>>
  /\ now = 0
  /\ call = [p \in 1..NumProcs |-> IdleCall]
  /\ finals = [i \in MatchIds |-> 0]

NextStart ==
  \/ Tick(LifeMaxTime)
  \/ \E p \in DOMAIN call :
       \/ StartStatus(p) \/ StartReady(p)
       \/ At(p, "ump_sel") \/ At(p, "ump_rsel") \/ At(p, "ump_force")
       \/ At(p, "gus_status") \/ At(p, "gus_match")
       \/ At(p, "ready")

SpecStart == InitStart /\ [][NextStart]_vars

\* ------------------------------------------ the queue of one table
\* Six teams were paired at time 0: the match of teams 1 and 2 was played
\* and is finished, awaiting its scores; the matches of teams 3, 4 and of
\* teams 5, 6 are queued behind it.  Two requests at a time: polls of
\* /api/status, whose deadline evaluation runs statement by statement, and
\* the score submissions of the finished match, while the clock runs.
InitQueue ==
  /\ teams = [t \in 1..QueueTeams |->
                [NewTeam EXCEPT !.status = IF t \in {1, 2} THEN "match_active"
                                           ELSE "match_pending"]]
  /\ matches = <<FinishedMatch,
                 NewMatch(3, 4, MATCH_DURATION_MINUTES + BUFFER_MINUTES),
                 NewMatch(5, 6, 2 * (MATCH_DURATION_MINUTES + BUFFER_MINUTES))>>
  /\ subs = {}
  /\ history = <<>>
  /\ now = QueueMaxTime - TickMinutes
  /\ call = [p \in 1..NumProcs |-> IdleCall]
  /\ finals = [i \in MatchIds |-> 0]

\* The next statement of request p, in a store that was created whole.
Step(p, pc) ==
  /\ call[p].pc = pc
  /\ Commit(p, StepOf(Store, call[p], now), TRUE)

SubmitFirst(p) ==
  /\ Idle(p)
  /\ \E u \in {1, 2}, s1 \in Scores, s2 \in Scores :
       Commit(p, SubmitOf(u, 1, s1, s2), FALSE)

NextQueue ==
  \/ Tick(QueueMaxTime)
  \/ \E p \in DOMAIN call :
       \/ StartStatus(p) \/ SubmitFirst(p)
       \/ Step(p, "ump_sel") \/ Step(p, "ump_busy") \/ Step(p, "ump_promote")
       \/ Step(p, "ump_rsel") \/ Step(p, "ump_force")
       \/ Step(p, "gus_status") \/ Step(p, "gus_match")

SpecQueue == InitQueue /\ [][NextQueue]_vars

\* ------------------------------------------------- two matches played
\* Two teams are paired, report their scores, and are paired again: two
\* finalizations, the second from unequal ratings.
NextSeason ==
  \/ ToggleStatus(1, FALSE, MaxMatches)
  \/ SubmitScore(1, FALSE, MaxFinal)

SpecSeason == Init /\ [][NextSeason]_vars

\* ------------------------------------------------------------ properties
Rank(st) ==
  CASE st = "pending" -> 0 [] st = "ready_check" -> 1 [] st = "active" -> 2
    [] st = "finished" -> 3 [] st = "completed" -> 4

CompletedOf(t) ==
  {i \in Ids(matches) : matches[i].status = "completed" /\ IsParticipant(matches[i], t)}

HistoryRowsOf(h, t) == {k \in DOMAIN h : h[k].team = t}

\* C1: at most one match per table has status ready_check, active or
\* finished, in every reachable state.
C1_TableExclusive ==
  \A i, j \in Ids(matches) :
    (/\ i # j
     /\ matches[i].table = matches[j].table
     /\ matches[i].status \in OCCUPYING) => matches[j].status \notin OCCUPYING

\* C2: no team is a participant of more than one match that is pending,
\* ready_check, active or finished.
C2_OneLiveMatchPerTeam ==
  \A t \in DOMAIN teams : Cardinality(LiveOf(matches, t)) <= 1

\* C5: both teams of every pending, ready_check, active or finished match
\* have status match_pending or match_active.
C5_LiveMatchTeamsInMatch ==
  \A i \in Ids(matches) :
    matches[i].status \in LIVE =>
      /\ teams[matches[i].team1].status \in IN_MATCH
      /\ teams[matches[i].team2].status \in IN_MATCH

\* C6: no step moves a match's status backwards in the order pending <
\* ready_check < active < finished < completed.
C6_StatusMonotone ==
  [][\A i \in Ids(matches) : Rank(matches'[i].status) >= Rank(matches[i].status)]_vars

\* C9: for every team the number of rating-history rows and the stored
\* plays counter equal the number of completed matches of the team, and the
\* stored wins equal the number of those it won.
C9_CountedOnce ==
  \A t \in DOMAIN teams :
    /\ Cardinality(HistoryRowsOf(history, t)) = Cardinality(CompletedOf(t))
    /\ teams[t].plays = Cardinality(CompletedOf(t))
    /\ teams[t].wins = Cardinality({i \in CompletedOf(t) : matches[i].winner = t})

\* ------------------------------------------------------ pairing, concurrent
InMatches(t) == {i \in Ids(matches) : IsParticipant(matches[i], t)}

NoSharedOpponent ==
  \A i, j \in Ids(matches) : i # j => matches[i].team2 # matches[j].team2

\* Requests p and q are both about to run try_create_match and see the same
\* single available team.
SameSingleOpponent(p, q) ==
  /\ p # q
  /\ call[p].pc = "tog_try" /\ call[q].pc = "tog_try"
  /\ Candidates(teams, p) = Candidates(teams, q)
  /\ Cardinality(Candidates(teams, p)) = 1

\* C3: when two teams run try_create_match concurrently and one other team
\* is available, the call that runs first returns a match with that team
\* and the other call then finds no opponent and falls back to becoming
\* available; no team is ever the claimed opponent of two matches.
C3_OneClaimPerOpponent ==
  [][/\ NoSharedOpponent'
     /\ \A p, q \in DOMAIN call :
          (SameSingleOpponent(p, q) /\ call'[p].pc # "tog_try") =>
            /\ call'[p].ret = "match_found"
            /\ matches'[call'[p].rid].team1 = p
            /\ matches'[call'[p].rid].team2 \in Candidates(teams, p)
            /\ call'[q].pc = "tog_try"
            /\ StepOf(Store', call'[q], now').s = Store'
            /\ StepOf(Store', call'[q], now').c.pc = "tog_avail"]_vars

\* One call has claimed the only available team; the other is still inside
\* toggle_status and finds nobody left.
C3_Witness ==
  \E p, q \in DOMAIN call :
    /\ p # q
    /\ call[p].ret = "match_found"
    /\ matches[call[p].rid].team2 \notin {p, q}
    /\ call[q].pc = "tog_try"
    /\ Candidates(teams, q) = {}

\* C4: after every team's single toggle_status call has returned, floor(N/2)
\* matches exist and no team is in two of them.
C4_AllPaired ==
  (\A p \in DOMAIN call : call[p].pc = "ret") =>
    /\ Len(matches) = Cardinality(DOMAIN teams) \div 2
    /\ \A t \in DOMAIN teams : Cardinality(InMatches(t)) <= 1

\* ------------------------------------------------------ reconciliation
\* The request gets as far as storing its submission.
Stores(u, m) ==
  /\ m \in Ids(matches)
  /\ IsParticipant(matches[m], u)
  /\ matches[m].status # "completed"

Other(row, u) == IF u = row.team1 THEN row.team2 ELSE row.team1

\* (my score, opponent's score) of team u for the form fields s1, s2
Mine(row, u, s1, s2) == IF u = row.team1 THEN <<s1, s2>> ELSE <<s2, s1>>

\* The row a submit of team u for match m with the form fields s1, s2 stores.
Sent(u, m, s1, s2) ==
  [match |-> m, team |-> u,
   sf |-> Mine(matches[m], u, s1, s2)[1], sa |-> Mine(matches[m], u, s1, s2)[2]]

\* The step is the whole submit request of team u for match m with the form
\* fields s1, s2.  The first three conjuncts follow from the last one; they
\* are there to be evaluated first.
SubmitStep(u, m, s1, s2) ==
  /\ Idle(1) /\ now' = now /\ call'[1].pc = "ret"
  /\ Stores(u, m) => Sent(u, m, s1, s2) \in subs'
  /\ Commit(1, SubmitOf(u, m, s1, s2), TRUE)

\* The other team's stored submission mirrors the one team u sends.
Agreeing(u, m, s1, s2) ==
  /\ HasSub(subs, m, Other(matches[m], u))
  /\ SubOf(subs, m, Other(matches[m], u)).sf = Mine(matches[m], u, s1, s2)[2]
  /\ SubOf(subs, m, Other(matches[m], u)).sa = Mine(matches[m], u, s1, s2)[1]

\* C7: a submit that leaves two mirrored submissions completes the match in
\* the same step with score1 and score2 the two teams' own scores and the
\* winner the team with the higher score, sets both teams to no_match and
\* returns match_completed; any other submit does not complete the match.
C7_ReconcileCompletes ==
  [][\A u \in DOMAIN teams, m \in MatchIds, s1 \in Scores, s2 \in Scores :
       (Stores(u, m) /\ SubmitStep(u, m, s1, s2)) =>
         LET row == matches[m]
             after == matches'[m]
             own == Mine(row, u, s1, s2)[1]
             opp == Mine(row, u, s1, s2)[2]
         IN IF Agreeing(u, m, s1, s2)
            THEN /\ after.status = "completed"
                 /\ after.score1 = (IF u = row.team1 THEN own ELSE opp)
                 /\ after.score2 = (IF u = row.team1 THEN opp ELSE own)
                 /\ after.winner \in {row.team1, row.team2}
                 /\ after.winner = row.team1 => after.score1 > after.score2
                 /\ after.winner = row.team2 => after.score2 > after.score1
                 /\ teams'[row.team1].status = "no_match"
                 /\ teams'[row.team2].status = "no_match"
                 /\ call'[1].ret = "match_completed"
            ELSE after.status = row.status]_vars

\* C8: a submit that does not find two mirrored submissions changes nothing
\* but the submissions and the mismatch flag: the match's status, scores and
\* winner, the teams and the rating history stay, the other stored
\* submissions stay, the flag is set exactly when the other team's
\* submission is present, and the result is waiting_for_opponent when it is
\* not.
C8_NoAgreementFrame ==
  [][\A u \in DOMAIN teams, m \in MatchIds, s1 \in Scores, s2 \in Scores :
       (Stores(u, m) /\ ~Agreeing(u, m, s1, s2) /\ SubmitStep(u, m, s1, s2)) =>
         LET row == matches[m]
             there == HasSub(subs, m, Other(row, u))
         IN /\ teams' = teams
            /\ history' = history
            /\ finals' = finals
            /\ matches' = [matches EXCEPT ![m].mismatch = there]
            /\ subs' = {r \in subs : ~(r.match = m /\ r.team = u)}
                         \cup {Sent(u, m, s1, s2)}
            /\ call'[1].ret = (IF there THEN "mismatch" ELSE "waiting_for_opponent")]_vars

\* A submit has just found two submissions that disagree.
C8_Witness ==
  /\ call[1].ret = "mismatch"
  /\ \E m \in Ids(matches) :
       /\ matches[m].mismatch
       /\ matches[m].status = "finished"
       /\ BothSubmitted(subs, m)
       /\ ~ScoresAgree(SubOf(subs, m, matches[m].team1), SubOf(subs, m, matches[m].team2))

\* C10: with both teams reporting the same result and requests repeated,
\* a match is finalized once: one play and one history row per team.
C10_FinalizedOnce ==
  /\ \A i \in MatchIds : finals[i] <= 1
  /\ \A t \in DOMAIN teams :
       /\ teams[t].plays <= 1
       /\ Cardinality(HistoryRowsOf(history, t)) <= 1

ReadyOf(S, u, m, t) == Ready(S, Request("ready", u, m, 0, 0, 0, "ready"), t)

DoneOf(S, u, m, t) == Done(S, Request("done", u, m, 0, 0, 0, "done"), t)

OthersUnchanged(ts, row) ==
  \A x \in DOMAIN teams : x \notin {row.team1, row.team2} => ts[x] = teams[x]

\* C12: a set_ready call on a ready_check match whose timer has not started
\* sets timer_start = now and status = active and both teams to match_active
\* when it makes both ready flags true; while only one flag is set the match
\* stays in ready_check and both teams stay match_pending.
C12_BothReadyStarts ==
  \A u \in DOMAIN teams, m \in Ids(matches) :
    LET row == matches[m]
        o == ReadyOf(Store, u, m, now)
        after == o.s.matches[m]
    IN (row.status = "ready_check" /\ row.timer = NULL /\ IsParticipant(row, u)) =>
         /\ after.ready1 = (row.ready1 \/ u = row.team1)
         /\ after.ready2 = (row.ready2 \/ u = row.team2)
         /\ OthersUnchanged(o.s.teams, row)
         /\ IF after.ready1 /\ after.ready2
            THEN /\ after.timer = now
                 /\ after.status = "active"
                 /\ o.s.teams[row.team1].status = "match_active"
                 /\ o.s.teams[row.team2].status = "match_active"
            ELSE /\ after.timer = NULL
                 /\ after.status = "ready_check"
                 /\ o.s.teams = teams
                 /\ teams[row.team1].status = "match_pending"
                 /\ teams[row.team2].status = "match_pending"

\* The second set_ready has started the match.
C12_Witness ==
  \E m \in Ids(matches) :
    /\ matches[m].status = "active"
    /\ matches[m].ready1 /\ matches[m].ready2
    /\ matches[m].timer = now
    /\ teams[matches[m].team1].status = "match_active"
    /\ teams[matches[m].team2].status = "match_active"

\* C13: set_ready twice in a row for the same team leaves what one call
\* leaves, also when the clock has moved between the two; the same for
\* set_done.
C13_Idempotent ==
  \A u \in DOMAIN teams, m \in Ids(matches) :
    /\ ReadyOf(ReadyOf(Store, u, m, now).s, u, m, now) = ReadyOf(Store, u, m, now)
    /\ ReadyOf(ReadyOf(Store, u, m, now).s, u, m, now + TickMinutes)
         = ReadyOf(Store, u, m, now)
    /\ DoneOf(DoneOf(Store, u, m, now).s, u, m, now) = DoneOf(Store, u, m, now)
    /\ DoneOf(DoneOf(Store, u, m, now).s, u, m, now + TickMinutes)
         = DoneOf(Store, u, m, now)

\* One team has called set_ready and one set_done; a repeated call of either
\* would find its flag set.
C13_Witness ==
  \E m \in Ids(matches) :
    /\ matches[m].ready1 # matches[m].ready2
    /\ matches[m].done1 # matches[m].done2

\* set_done sets the caller's flag, writes status finished once both flags
\* are set and writes no team.
DoneSetsFlag ==
  \A u \in DOMAIN teams, m \in Ids(matches) :
    LET row == matches[m]
        o == DoneOf(Store, u, m, now)
        after == o.s.matches[m]
    IN IsParticipant(row, u) =>
         /\ after.done1 = (row.done1 \/ u = row.team1)
         /\ after.done2 = (row.done2 \/ u = row.team2)
         /\ after.status = (IF after.done1 /\ after.done2 THEN "finished" ELSE row.status)
         /\ o.s.teams = teams

FinishedTeamsActive ==
  \A m \in Ids(matches) :
    matches[m].status = "finished" =>
      /\ teams[matches[m].team1].status = "match_active"
      /\ teams[matches[m].team2].status = "match_active"

\* A team leaves match_active for no_match in this step only with a match
\* of it becoming completed.
ReleasedByCompletion ==
  \A t \in DOMAIN teams :
    (teams[t].status = "match_active" /\ teams'[t].status = "no_match") =>
      \E m \in Ids(matches) :
        /\ IsParticipant(matches[m], t)
        /\ matches[m].status # "completed"
        /\ matches'[m].status = "completed"

\* C14: set_done sets the caller's done flag, sets status finished once both
\* flags are true and changes no team; both teams of a finished match are
\* match_active, and a team goes from match_active to no_match only in the
\* step that completes its match.
C14_DoneKeepsTeamsActive ==
  [][DoneSetsFlag /\ FinishedTeamsActive' /\ ReleasedByCompletion]_vars

\* --------------------------------------------------------------- pairing
\* try_create_match of team u with the draw pick, on the store S
TryOf(S, u, pick, t) == TryCreateMatch(S, Request("toggle", u, 0, 0, 0, pick, "tog_try"), t)

\* get_user_state of team u, as /api/status returns it
StateOf(S, u, t) == Run(S, Request("status", u, 0, 0, 0, 0, "ump_sel"), t).c

OthersAvailable(u) == {x \in DOMAIN teams : x # u /\ teams[x].status = "available"}

\* C15: with another team available, try_create_match of an idle requester
\* appends one pending match of the requester and a team that was available,
\* sets exactly these two teams to match_pending, returns the new id, and
\* get_user_state of either team then reports match_pending with that match.
C15_PairsWithAvailable ==
  \A u \in DOMAIN teams, pick \in DOMAIN teams :
    (teams[u].status = "no_match" /\ OthersAvailable(u) # {}) =>
      LET o == TryOf(Store, u, pick, now)
          id == Len(matches) + 1
          new == o.s.matches[id]
      IN /\ Len(o.s.matches) = id
         /\ SubSeq(o.s.matches, 1, Len(matches)) = matches
         /\ new.status = "pending"
         /\ new.team1 = u
         /\ new.team2 \in OthersAvailable(u)
         /\ \A x \in DOMAIN teams :
              o.s.teams[x] = IF x \in {u, new.team2}
                             THEN [teams[x] EXCEPT !.status = "match_pending"]
                             ELSE teams[x]
         /\ o.s.subs = subs /\ o.s.history = history
         /\ o.c.pc = "ret" /\ o.c.ret = "match_found" /\ o.c.rid = id
         /\ \A x \in {u, new.team2} :
              /\ StateOf(o.s, x, now).ret = "match_pending"
              /\ StateOf(o.s, x, now).rid = id

\* C16: with no other team available, try_create_match finds no opponent
\* and leaves the store as it is.
C16_NoOpponentNoChange ==
  \A u \in DOMAIN teams, pick \in DOMAIN teams :
    OthersAvailable(u) = {} =>
      /\ TryOf(Store, u, pick, now).s = Store
      /\ TryOf(Store, u, pick, now).c.pc = "tog_avail"

\* A team found nobody and is searching; no match was made.
C16_Witness ==
  /\ matches = <<>>
  /\ \E u \in DOMAIN teams :
       /\ teams[u].status = "available"
       /\ \A x \in DOMAIN teams \ {u} : teams[x].status = "no_match"

\* C17: try_create_match run for a team that is match_pending or
\* match_active creates no match and changes no team.
C17_InMatchRequesterRefused ==
  [][\A p \in DOMAIN call :
       (/\ call[p].pc = "tog_try"
        /\ call'[p].pc # "tog_try"
        /\ teams[call[p].u].status \in IN_MATCH) =>
         /\ matches' = matches
         /\ teams' = teams]_vars

\* ---------------------------------------------------------------- toggle
\* POST /api/toggle_status of team u with the draw pick, on the store S
ToggleOf(S, u, pick, t) == Run(S, Request("toggle", u, 0, 0, 0, pick, "ump_sel"), t)

\* get_user_state of team u on the store S: the store it leaves and its answer
GetStateOf(S, u, t) == Run(S, Request("status", u, 0, 0, 0, 0, "ump_sel"), t)

\* C18: toggle_status answers by the state get_user_state reports.  In a
\* match: error, and the store is the one get_user_state left.  Available:
\* cancelled, and the team is no_match.  Idle: match_found with the id of
\* the match it created, or else searching with the team set available.
C18_ToggleOutcomes ==
  \A u \in DOMAIN teams, pick \in DOMAIN teams :
    LET g == GetStateOf(Store, u, now)
        o == ToggleOf(Store, u, pick, now)
    IN /\ o.c.pc = "ret"
       /\ g.c.ret \in IN_MATCH =>
            /\ o.c.ret = "error"
            /\ o.s = g.s
       /\ g.c.ret = "available" =>
            /\ o.c.ret = "cancelled"
            /\ o.s = [g.s EXCEPT !.teams[u].status = "no_match"]
       /\ g.c.ret = "no_match" =>
            IF o.s.matches # g.s.matches
            THEN /\ o.c.ret = "match_found"
                 /\ o.c.rid = Len(o.s.matches)
                 /\ Len(o.s.matches) = Len(g.s.matches) + 1
                 /\ o.s.matches[o.c.rid].team1 = u
            ELSE /\ o.c.ret = "searching"
                 /\ o.s = [g.s EXCEPT !.teams[u].status = "available"]

\* A team in a match toggled and was answered error; another toggled
\* before and is searching.
C18_Witness ==
  /\ call[1].ret = "error"
  /\ \E u \in DOMAIN teams : teams[u].status \in IN_MATCH
  /\ \E u \in DOMAIN teams : teams[u].status = "available"

\* ------------------------------------------------------------- self-heal
\* The store once the deadline rules have been applied at time t
Evaluated(S, t) ==
  LET e == UpdateMatchProgress(S.matches, S.teams, t)
  IN [S EXCEPT !.matches = e[1], !.teams = e[2]]

\* Team u has an in-match status and no live match in the store S
Unbacked(S, u) == S.teams[u].status \in IN_MATCH /\ LiveOf(S.matches, u) = {}

\* C19: get_user_state of a team whose status is match_pending or
\* match_active while no live match has it as a participant writes
\* no_match on the team and answers no_match without a match; otherwise it
\* answers the stored status, with a live match of the team exactly when
\* the status is match_pending or match_active.  The deadline evaluation
\* is its only other write.
C19_SelfHeal ==
  \A u \in DOMAIN teams :
    LET e == Evaluated(Store, now)
        g == GetStateOf(Store, u, now)
    IN /\ g.c.pc = "ret"
       /\ IF Unbacked(e, u)
          THEN /\ g.s = [e EXCEPT !.teams[u].status = "no_match"]
               /\ g.c.ret = "no_match"
               /\ g.c.rid = 0
          ELSE /\ g.s = e
               /\ g.c.ret = e.teams[u].status
               /\ IF g.c.ret \in IN_MATCH
                  THEN g.c.rid \in LiveOf(e.matches, u)
                  ELSE g.c.rid = 0
       /\ ~Unbacked(g.s, u)

\* get_user_state has answered no_match while a team with an in-match
\* status and no live match is in the store.
C19_Witness ==
  /\ call[1].ret = "no_match"
  /\ \E u \in DOMAIN teams : Unbacked(Store, u)
  /\ \E u \in DOMAIN teams : teams[u].status = "no_match"

\* -------------------------------------------------- deadlines before use
\* match_manager.py:453-482  the row get_match_details reads
GetMatchDetails(S, m) == S.matches[m]

\* C20: get_match_details, set_ready and set_done apply the deadline
\* rules first: each sees or writes what it would on the store
\* update_match_progress leaves at the time of the call.
C20_DeadlinesFirst ==
  \A m \in Ids(matches) :
    /\ GetMatchDetails(Store, m) = GetMatchDetails(Evaluated(Store, now), m)
    /\ \A u \in DOMAIN teams :
         /\ ReadyOf(Store, u, m, now).s = ReadyOf(Evaluated(Store, now), u, m, now).s
         /\ DoneOf(Store, u, m, now).s = DoneOf(Evaluated(Store, now), u, m, now).s

\* ------------------------------------------------------- refused submits
\* MatchManager.submit_score(m, u, sf, sa) called on the store S
ManagerSubmitOf(S, u, m, sf, sa, t) ==
  Run(S, Request("submit", u, m, sf, sa, 0, "ss_read"), t)

Refused(m) == m \notin Ids(matches) \/ matches[m].status = "completed"

\* C21: a score submitted for a match that does not exist or is completed
\* is answered with an error (not found, unauthorized or invalid state) and
\* leaves the whole store as it is, through the route and through
\* submit_score called directly.
C21_RefusedSubmit ==
  \A u \in DOMAIN teams, m \in MatchIds, s1 \in Scores, s2 \in Scores :
    Refused(m) =>
      /\ SubmitOf(u, m, s1, s2).s = Store
      /\ SubmitOf(u, m, s1, s2).c.ret \in {"not_found", "unauthorized", "error"}
      /\ ManagerSubmitOf(Store, u, m, s1, s2, now).s = Store
      /\ ManagerSubmitOf(Store, u, m, s1, s2, now).c.ret = "error"

\* A completed match with its two submissions kept, and a submit for it
\* that was answered with an error.
C21_Witness ==
  /\ call[1].ret = "error"
  /\ \E m \in Ids(matches) :
       /\ matches[m].status = "completed"
       /\ BothSubmitted(subs, m)

\* ------------------------------------------------------ the mismatch flag
\* The step is what reset_mismatch of match m does to the store.
ResetStep(m) ==
  /\ matches' = ResetMismatch(matches, m)
  /\ subs' = DeleteSubs(subs, m)
  /\ teams' = teams /\ history' = history

\* C22: a mismatch flag that is set is cleared by reset_mismatch of that
\* match only.
C22_FlagUntilReset ==
  [][\A m \in Ids(matches) :
       (matches[m].mismatch /\ ~matches'[m].mismatch) => ResetStep(m)]_vars

\* --------------------------------------------------- reset and resubmit
\* POST /api/match/<m>/reset_mismatch of team u on the store S
ResetOf(S, u, m, t) == Run(S, Request("reset", u, m, 0, 0, 0, "reset"), t)

\* POST /match/<m> of team u with the form fields s1, s2 on the store S
SubmitOn(S, u, m, s1, s2, t) == Run(S, Request("submit", u, m, s1, s2, 0, "vm_read"), t)

\* C23: reset_mismatch by a participant leaves the match without
\* submissions and with the flag clear, and changes nothing else of the
\* match and no team.  On a match that is not completed, the next
\* submission is answered waiting_for_opponent and the other team's
\* agreeing submission after it completes the match.
C23_ResetThenResubmit ==
  \A m \in Ids(matches), u \in DOMAIN teams :
    IsParticipant(matches[m], u) =>
      LET r == ResetOf(Store, u, m, now)
      IN /\ r.c.ret = "success"
         /\ SubsOf(r.s.subs, m) = {}
         /\ r.s.matches[m] = [matches[m] EXCEPT !.mismatch = FALSE]
         /\ r.s.teams = teams
         /\ r.s.history = history
         /\ matches[m].status # "completed" =>
              \A v \in {matches[m].team1, matches[m].team2}, s1 \in Scores, s2 \in Scores :
                LET a == SubmitOn(r.s, v, m, s1, s2, now)
                    b == SubmitOn(a.s, Other(matches[m], v), m, s1, s2, now)
                IN /\ a.c.ret = "waiting_for_opponent"
                   /\ SubsOf(a.s.subs, m) = {Sent(v, m, s1, s2)}
                   /\ a.s.matches[m].status = matches[m].status
                   /\ b.c.ret = "match_completed"
                   /\ b.s.matches[m].status = "completed"

\* A reset was answered with success: the finished match has no
\* submission and no mismatch flag, and its teams are still match_active.
C23_Witness ==
  /\ call[1].ret = "success"
  /\ matches[1].status = "finished"
  /\ ~matches[1].mismatch
  /\ SubsOf(subs, 1) = {}
  /\ teams[1].status = "match_active" /\ teams[2].status = "match_active"

\* C24: reset_mismatch requested for a match that does not exist or by a
\* team that is not one of its two teams is answered Unauthorized and
\* leaves the store as it is; requested by either participant it succeeds.
C24_ResetByParticipantsOnly ==
  \A u \in DOMAIN teams, m \in MatchIds :
    LET r == ResetOf(Store, u, m, now)
    IN IF m \in Ids(matches) /\ IsParticipant(matches[m], u)
       THEN r.c.ret = "success"
       ELSE /\ r.c.ret = "unauthorized"
            /\ r.s = Store

\* A request was answered Unauthorized while the match has its mismatch
\* flag set and both submissions stored.
C24_Witness ==
  /\ call[1].ret = "unauthorized"
  /\ matches[1].mismatch
  /\ BothSubmitted(subs, 1)

\* ---------------------------------------------------------- notifications
\* C25: check_notifications answers notify = true only for a match that is
\* pending, not yet notified and inside the window at that moment, and
\* marks it notified in the same step: at most once per match.
C25_NotifyOnce ==
  [][\A p \in DOMAIN call :
       (call[p].pc # "ret" /\ call'[p].pc = "ret" /\ call'[p].ret = "notify") =>
         LET m == call'[p].rid
         IN /\ matches[m].status = "pending"
            /\ ~matches[m].notified
            /\ matches'[m].notified]_vars

\* ----------------------------------------------------------------- rating
\* The step completes match m.
Completes(m) == matches[m].status # "completed" /\ matches'[m].status = "completed"

\* C26: when a match of two teams rated 1000 is finalized, the winner is
\* rated 1016 and the loser 984.
C26_EloFromEqual ==
  [][\A m \in Ids(matches) :
       (/\ Completes(m)
        /\ teams[matches[m].team1].elo = INITIAL_ELO
        /\ teams[matches[m].team2].elo = INITIAL_ELO) =>
         LET w == matches'[m].winner
             l == Other(matches[m], w)
         IN /\ IsParticipant(matches[m], w)
            /\ teams'[w].elo = 1016
            /\ teams'[l].elo = 984]_vars

\* A match was finalized once and its teams are rated 1016 and 984.
C26_Witness ==
  \E m \in Ids(matches) :
    /\ matches[m].status = "completed"
    /\ finals[m] = 1
    /\ teams[matches[m].winner].elo = 1016
    /\ teams[Other(matches[m], matches[m].winner)].elo = 984

\* ------------------------------------------------------------- lifecycle
\* C27: a match's status changes to its immediate successor only, in the
\* order pending, ready_check, active, finished, completed.  The deadline
\* evaluation may take a match from pending through ready_check to active
\* in one transaction.
C27_SuccessorOnly ==
  [][\A m \in Ids(matches) :
       matches'[m].status # matches[m].status =>
         \/ Rank(matches'[m].status) = Rank(matches[m].status) + 1
         \/ /\ matches' = Evaluated(Store, now).matches
            /\ matches[m].status = "pending"
            /\ matches'[m].status = "active"]_vars

\* ------------------------------------------------------ the deadline rules
\* C28: a run of the evaluator at time now makes every ready_check match
\* with now > scheduled_start + 5 active with timer_start = now and both
\* its teams match_active, whatever its ready flags; a ready_check match
\* with now <= scheduled_start + 5 is left as it is.
C28_ForcedStartRule ==
  \A i \in Ids(matches) :
    matches[i].status = "ready_check" =>
      LET e == Evaluated(Store, now)
          row == matches[i]
      IN IF now > row.sched + 5
         THEN /\ e.matches[i] = [row EXCEPT !.status = "active", !.timer = now]
              /\ e.teams[row.team1].status = "match_active"
              /\ e.teams[row.team2].status = "match_active"
         ELSE /\ e.matches[i] = row
              /\ e.teams[row.team1] = teams[row.team1]
              /\ e.teams[row.team2] = teams[row.team2]

\* A match was started by the evaluator at this minute with one ready flag
\* set and the other not.
C28_Witness ==
  \E i \in Ids(matches) :
    /\ matches[i].status = "active"
    /\ matches[i].timer = now /\ now > matches[i].sched + 5
    /\ matches[i].ready1 # matches[i].ready2
    /\ teams[matches[i].team1].status = "match_active"
    /\ teams[matches[i].team2].status = "match_active"

\* Another row of the table of match i is in ready_check, active or finished.
Occupied(ms, i) ==
  \E j \in Ids(ms) \ {i} : ms[j].table = ms[i].table /\ ms[j].status \in OCCUPYING

\* update_match_progress run with no other request in between takes a
\* pending match out of pending only when now >= scheduled_start - 3 and no
\* other match of its table is in ready_check, active or finished, before
\* the run or after it; a pending match whose window is not open or whose
\* table is occupied stays as it is.
PromotionRuleAlone ==
  \A i \in Ids(matches) :
    matches[i].status = "pending" =>
      LET e == Evaluated(Store, now)
      IN /\ e.matches[i].status # "pending" =>
              /\ now >= matches[i].sched - 3
              /\ ~Occupied(matches, i)
              /\ ~Occupied(e.matches, i)
         /\ (now < matches[i].sched - 3 \/ Occupied(matches, i)) =>
              e.matches[i] = matches[i]

\* The step is the promoting UPDATE of a deadline evaluation in flight.
PromotingStep(p) == call[p].pc = "ump_promote" /\ call'[p].pc # "ump_promote"

\* C29: the evaluator takes a pending match out of pending only when
\* now >= scheduled_start - 3 and, at that moment, no other match of its
\* table is in ready_check, active or finished.
C29_PromotionRule ==
  [][\A p \in DOMAIN call :
       PromotingStep(p) =>
         \A i \in Ids(matches) :
           (matches[i].status = "pending" /\ matches'[i].status # "pending") =>
             /\ now >= matches[i].sched - 3
             /\ ~Occupied(matches, i)]_vars

\* ---------------------------------------------------- ready, concurrent
\* C30: no committed state has both ready flags of a match set while its
\* status is ready_check.
C30_NoReadyPairInReadyCheck ==
  \A m \in Ids(matches) :
    ~(matches[m].ready1 /\ matches[m].ready2 /\ matches[m].status = "ready_check")

\* ------------------------------------------------- ready on a started match
\* C31: set_ready by a team of a match that is active leaves the match and
\* the teams as they are.
C31_ReadyOnActiveNoEffect ==
  \A m \in Ids(matches), u \in DOMAIN teams :
    (matches[m].status = "active" /\ IsParticipant(matches[m], u)) =>
      /\ ReadyOf(Store, u, m, now).s.matches = matches
      /\ ReadyOf(Store, u, m, now).s.teams = teams

\* ---------------------------------------------------------- timer_start
\* C32: an active match has a timer_start; a match is created without one,
\* and a timer_start is first written by a step that makes the match active.
C32_TimerIffActivated ==
  /\ [](\A m \in Ids(matches) : matches[m].status = "active" => matches[m].timer # NULL)
  /\ [][/\ \A m \in Ids(matches') \ Ids(matches) : matches'[m].timer = NULL
        /\ \A m \in Ids(matches) :
             (matches[m].timer = NULL /\ matches'[m].timer # NULL) =>
               /\ matches[m].status # "active"
               /\ matches'[m].status = "active"
               /\ matches'[m].timer = now]_vars

\* An active match with its timer running on which a done flag is set.
C32_Witness ==
  \E m \in Ids(matches) :
    /\ matches[m].status = "active"
    /\ matches[m].timer # NULL
    /\ matches[m].done1 # matches[m].done2

\* ------------------------------------------------------------ the queue
\* The scheduled starts of the live matches of the store.
LiveStarts == {matches[i].sched : i \in {j \in Ids(matches) : matches[j].status \in LIVE}}

\* Two live matches of one table are scheduled at least 15 minutes apart.
StartsApart ==
  \A i \in Ids(matches), j \in Ids(matches) :
    (/\ i # j
     /\ matches[i].table = matches[j].table
     /\ matches[i].status \in LIVE /\ matches[j].status \in LIVE
     /\ matches[i].sched <= matches[j].sched) =>
       matches[j].sched - matches[i].sched >= 15

\* A new match is scheduled 15 minutes after the latest scheduled start of
\* the live matches, and now when there is none.
NewRowScheduled ==
  \A m \in Ids(matches') \ Ids(matches) :
    matches'[m].sched =
      IF LiveStarts = {} THEN now
      ELSE (CHOOSE s \in LiveStarts : \A x \in LiveStarts : s >= x) + 15

\* C33: a new match is scheduled at the latest scheduled_start of the live
\* matches plus 15 minutes, or now when no match is live; two matches of a
\* table that are live at the same time are at least 15 minutes apart.
C33_QueueSpacing == [][NewRowScheduled]_vars /\ []StartsApart

\* C34: a finalization leaves the sum of the two teams' ratings as it was;
\* the winner's rating does not go down and the loser's does not go up.
C34_ZeroSum ==
  [][\A m \in Ids(matches) :
       Completes(m) =>
         LET w == matches'[m].winner
             l == Other(matches[m], w)
         IN /\ teams'[w].elo + teams'[l].elo = teams[w].elo + teams[l].elo
            /\ teams'[w].elo >= teams[w].elo
            /\ teams'[l].elo <= teams[l].elo]_vars

\* Team u is the claimed opponent of a live match created by another team.
ClaimedIn(ms, u) == {i \in LiveOf(ms, u) : ms[i].team2 = u /\ ms[i].team1 # u}

\* C35: a cancel of toggle_status that runs concurrently with another
\* team's claim never writes no_match for a team that the claim has made
\* the opponent of a live match: either the cancel took effect and the
\* team is in no match, or the claim did and the team stays match_pending.
C35_CancelOrClaim ==
  [][\A p \in DOMAIN call :
       (call[p].pc = "tog_cancel" /\ call'[p].ret = "cancelled") =>
         \/ ClaimedIn(matches', call[p].u) = {}
         \/ teams'[call[p].u].status \in IN_MATCH]_vars

\* The four flags of a match row.
Flags(row) == <<row.ready1, row.ready2, row.done1, row.done2>>

\* C36: set_ready and set_done change the flags of a match only for a
\* caller that is one of its two teams, and then only the caller's own
\* flag; a call by any other team leaves the matches and the teams as they
\* were.
C36_OwnFlagOnly ==
  \A m \in Ids(matches), u \in DOMAIN teams :
    LET r == ReadyOf(Store, u, m, now).s
        d == DoneOf(Store, u, m, now).s
        row == matches[m]
    IN IF IsParticipant(row, u)
       THEN /\ Flags(r.matches[m]) =
                 (IF u = row.team1 THEN <<TRUE, row.ready2, row.done1, row.done2>>
                  ELSE <<row.ready1, TRUE, row.done1, row.done2>>)
            /\ Flags(d.matches[m]) =
                 (IF u = row.team1 THEN <<row.ready1, row.ready2, TRUE, row.done2>>
                  ELSE <<row.ready1, row.ready2, row.done1, TRUE>>)
       ELSE /\ r.matches = matches /\ r.teams = teams
            /\ d.matches = matches /\ d.teams = teams

\* The final score of team u in a completed match.
ScoreOf(row, u) == IF u = row.team1 THEN row.score1 ELSE row.score2

\* C37: the winner of every completed match is one of its two teams and
\* its final score is strictly greater than the other team's; equal scores
\* make neither team the winner.
C37_WinnerScoredMore ==
  \A m \in Ids(matches) :
    matches[m].status = "completed" =>
      /\ IsParticipant(matches[m], matches[m].winner)
      /\ ScoreOf(matches[m], matches[m].winner)
           > ScoreOf(matches[m], Other(matches[m], matches[m].winner))

\* C38: timer_start of a match is written at most once: once it is set, no
\* step of any request, alone or concurrent with a deadline evaluation or
\* a set_ready call, changes it.
C38_TimerWrittenOnce ==
  [][\A m \in Ids(matches) :
       matches[m].timer # NULL => matches'[m].timer = matches[m].timer]_vars

\* Team1 of match m posts the form (a1, a2), then team2 posts (b1, b2).
Team1First(m, a1, a2, b1, b2) ==
  SubmitOn(SubmitOn(Store, matches[m].team1, m, a1, a2, now).s,
           matches[m].team2, m, b1, b2, now).s

\* The same two posts, team2's first.
Team2First(m, a1, a2, b1, b2) ==
  SubmitOn(SubmitOn(Store, matches[m].team2, m, b1, b2, now).s,
           matches[m].team1, m, a1, a2, now).s

\* Match m awaits its two submissions.
AwaitsBoth(m) == matches[m].status # "completed" /\ SubsOf(subs, m) = {}

EntersReadyCheck(m) ==
  /\ m \in Ids(matches)
  /\ matches[m].status = "pending"
  /\ matches'[m].status = "ready_check"

\* C40: the matches of a table enter ready_check in the order of their
\* scheduled_start: no step promotes a pending match while another pending
\* match of the same table with an earlier scheduled_start stays pending.
C40_PromotedInOrder ==
  [][\A m \in Ids(matches) :
       EntersReadyCheck(m) =>
         \A j \in Ids(matches) :
           (/\ j # m
            /\ matches[j].table = matches[m].table
            /\ matches[j].sched < matches[m].sched) => matches'[j].status # "pending"]_vars
====
